---- MODULE Spec2Model ----
(***************************************************************************)
(* The Google Pay button component of src/custom/pages/fast-checkout.vue   *)
(* (the first <script setup> block, lines 11-227) as a state machine.      *)
(*                                                                         *)
(* The component is single threaded and event driven: every action below   *)
(* is one run-to-completion piece of the code, from an entry point or the  *)
(* settling of a promise up to the next await or the end of the handler.   *)
(* The vendor client, the backend and the DOM are the environment; their   *)
(* answers are the nondeterministic choices of the actions.                *)
(***************************************************************************)
EXTENDS Naturals, Sequences, FiniteSets

\* ---------------------------------------------------------------- bounds
MaxCalls == 4   \* calls of the entry points in one run: initGooglePay,
                \* createAndAddButton, the onBeforeUnmount hook and the
                \* clicks that reach loadPaymentData

Null == 0           \* null of paymentsClient, buttonElement, scriptEl

Inits == 1..MaxCalls
Flows == 1..MaxCalls

\* ------------------------------------------------------- status messages
MsgInitial      == ""
MsgScriptError  == "Could not load Google Pay script."
MsgAvailable    == "Google Pay is available. Click the button to pay."
MsgUnavailable  == "Google Pay is not available in this environment/profile."
MsgCheckError   == "Error checking Google Pay availability."
MsgNoClient     == "Payments client not initialized."
MsgPayFailed    == "Payment cancelled or failed; check console."
MsgProcessing   == "Payment authorized. Processing..."
MsgServerDone   == "Server processed payment."
MsgRelayError   == "Error sending token to server; see console."

VARIABLES
  autoSendToServer, \* props.autoSendToServer
  apiPresent,       \* window.google.payments.api is defined
  status,           \* status.value
  loading,          \* loading.value
  paymentsClient,   \* Null or the id of the client held
  buttonElement,    \* Null or the id of the button held
  scriptEl,         \* Null or the id of the script element held
  buttonContainer,  \* buttonContainer.value is an element (TRUE) or null (FALSE)
  headScripts,      \* script elements of this component that are in document.head
  attached,         \* buttons that are children of the container
  nButtons,         \* buttons created so far (ids 1..nButtons)
  nScripts,         \* script elements created so far (ids 1..nScripts)
  nInits,           \* calls of initGooglePay so far
  nClicks,          \* calls of loadPaymentData so far
  nMounts,          \* direct calls of createAndAddButton so far
  teardownCalls,    \* runs of the onBeforeUnmount hook so far
  initPc,           \* position of every call of initGooglePay
  initScript,       \* the script element whose load a call of initGooglePay awaits
  payPc,            \* position of every payment flow
  initEvents,       \* the calls of emit by every call of initGooglePay, in order
  payEvents,        \* the calls of emit by every payment flow, in order
  amount,           \* props.amount
  currency,         \* props.currency
  merchantName,     \* props.merchantName
  request           \* the request of the last call of loadPaymentData

vars == <<autoSendToServer, apiPresent, status, loading, paymentsClient,
          buttonElement, scriptEl, buttonContainer, headScripts, attached,
          nButtons, nScripts, nInits, nClicks, nMounts, teardownCalls,
          initPc, initScript, payPc, initEvents, payEvents,
          amount, currency, merchantName, request>>

\* The props read by getPaymentDataRequest.
props == <<amount, currency, merchantName>>

\* ----------------------------------------------------------------- emit
\* emit(e, a) is recorded in the log of the call that makes it: a call of
\* initGooglePay or a payment flow. evs is that log.
Ev(e, a) == [e |-> e, a |-> a]

emit(evs, e, a) == Append(evs, Ev(e, a))

\* ------------------------------------------------- loadGooglePayScript
\* (loadGooglePayScriptNoCheck is loadGooglePayScript without the test of
\* line 78.)
\* The synchronous part of loadGooglePayScript: with the vendor API present
\* nothing is injected and the promise returned is already resolved (awaited
\* script Null); otherwise a new script element is created, kept in scriptEl
\* and appended to document.head.
loadGooglePayScriptNoCheck(api, sEl, head, ns) ==
  [awaits |-> ns + 1, scriptEl |-> ns + 1,
   headScripts |-> head \cup {ns + 1}, nScripts |-> ns + 1]

loadGooglePayScript(api, sEl, head, ns) ==
  IF api
    THEN [awaits |-> Null, scriptEl |-> sEl, headScripts |-> head, nScripts |-> ns]
    ELSE [awaits |-> ns + 1, scriptEl |-> ns + 1,
          headScripts |-> head \cup {ns + 1}, nScripts |-> ns + 1]

\* --------------------------------------------------- initPaymentsClient
\* new PaymentsClient(...): the client constructed by call i of
\* initGooglePay is named i (a call constructs at most one).
initPaymentsClient(i) == i

\* --------------------------------------------------- createAndAddButton
\* client, btn: paymentsClient and buttonElement; att: the container's
\* children; cont: the container ref is an element; nb: buttons created.
\* createAndAddButton without lines 136-139: the button held stays attached.
createAndAddButtonKeepsOld(client, btn, att, cont, nb) ==
  IF client = Null
    THEN [buttonElement |-> btn, attached |-> att, nButtons |-> nb]
    ELSE [buttonElement |-> nb + 1,
          attached      |-> IF cont THEN att \cup {nb + 1} ELSE att,
          nButtons      |-> nb + 1]

createAndAddButton(client, btn, att, cont, nb) ==
  IF client = Null
    THEN [buttonElement |-> btn, attached |-> att, nButtons |-> nb]
    ELSE LET removes == btn # Null /\ cont /\ btn \in att
             att1    == IF removes THEN att \ {btn} ELSE att
             new     == nb + 1
         IN  [buttonElement |-> new,
              attached      |-> IF cont THEN att1 \cup {new} ELSE att1,
              nButtons      |-> new]

\* The if/else of initGooglePay on isReady.result (lines 116-123).
\* The if/else with createAndAddButton moved out of the positive branch.
readyBranchAlwaysMounts(r, client, btn, att, cont, nb, evs) ==
  LET b == createAndAddButton(client, btn, att, cont, nb)
  IN  [buttonElement |-> b.buttonElement, attached |-> b.attached,
       nButtons |-> b.nButtons,
       events |-> emit(evs, "ready", IF r THEN "true" ELSE "false"),
       status |-> IF r THEN MsgAvailable ELSE MsgUnavailable,
       pc |-> IF r THEN "done_true" ELSE "done_false"]

readyBranch(r, client, btn, att, cont, nb, evs) ==
  IF r
    THEN LET b == createAndAddButton(client, btn, att, cont, nb)
         IN  [buttonElement |-> b.buttonElement, attached |-> b.attached,
              nButtons |-> b.nButtons,
              events |-> emit(evs, "ready", "true"),
              status |-> MsgAvailable, pc |-> "done_true"]
    ELSE [buttonElement |-> btn, attached |-> att, nButtons |-> nb,
          events |-> emit(evs, "ready", "false"),
          status |-> MsgUnavailable, pc |-> "done_false"]

\* ------------------------------------------------ getPaymentDataRequest
\* The defaults of the props (lines 17-23).
DefaultAmount       == "1.00"
DefaultCurrency     == "USD"
DefaultMerchantName == "Example Merchant"
DefaultGateway           == "example"
DefaultGatewayMerchantId == "BCR2DN5T5CC5PV3C"

allowedCardNetworks    == <<"AMEX", "DISCOVER", "MASTERCARD", "VISA">>
allowedCardAuthMethods == <<"PAN_ONLY", "CRYPTOGRAM_3DS">>

tokenizationSpecification ==
  [type |-> "PAYMENT_GATEWAY",
   parameters |-> [gateway |-> DefaultGateway,
                   gatewayMerchantId |-> DefaultGatewayMerchantId]]

cardPaymentMethod ==
  [type |-> "CARD",
   parameters |-> [allowedAuthMethods |-> allowedCardAuthMethods,
                   allowedCardNetworks |-> allowedCardNetworks,
                   billingAddressRequired |-> TRUE,
                   billingAddressParameters |-> [format |-> "FULL"]],
   tokenizationSpecification |-> tokenizationSpecification]

\* No call of loadPaymentData has been made yet.
NoRequest == [none |-> TRUE]

\* (getPaymentDataRequestDefaults: the request built from the defaults of
\* the props instead of their values.)
getPaymentDataRequestDefaults(totalPrice, currencyCode, name) ==
  [apiVersion |-> 2, apiVersionMinor |-> 0,
   allowedPaymentMethods |-> <<cardPaymentMethod>>,
   transactionInfo |-> [totalPriceStatus |-> "FINAL",
                        totalPrice |-> DefaultAmount,
                        currencyCode |-> DefaultCurrency],
   merchantInfo |-> [merchantName |-> DefaultMerchantName]]

\* getPaymentDataRequest(totalPrice, currencyCode) with props.merchantName = name.
getPaymentDataRequest(totalPrice, currencyCode, name) ==
  [apiVersion |-> 2, apiVersionMinor |-> 0,
   allowedPaymentMethods |-> <<cardPaymentMethod>>,
   transactionInfo |-> [totalPriceStatus |-> "FINAL",
                        totalPrice |-> totalPrice,
                        currencyCode |-> currencyCode],
   merchantInfo |-> [merchantName |-> name]]

\* ------------------------------------------------- handlePaymentSuccess
\* The part of handlePaymentSuccess before its await: the status, the
\* success event and, with autoSendToServer, the POST (position "post").
\* handlePaymentSuccess without the test of props.autoSendToServer.
handlePaymentSuccessAlwaysRelays(evs, auto) ==
  [status |-> MsgProcessing,
   events |-> emit(evs, "success", "token"),
   pc     |-> "post"]

handlePaymentSuccess(evs, auto) ==
  [status |-> MsgProcessing,
   events |-> emit(evs, "success", "token"),
   pc     |-> IF auto THEN "post" ELSE "done_norelay"]

\* The end of handlePaymentSuccess once res.json() has settled: a response
\* of any HTTP status, parsed or not, takes the same path.
relaySettled(httpOk, parsed, evs) ==
  [status |-> MsgServerDone,
   events |-> evs,
   pc     |-> IF ~httpOk THEN "done_non2xx"
              ELSE IF parsed THEN "done_ok" ELSE "done_parsefail"]

\* The catch of handlePaymentSuccess: fetch rejected.
\* The catch of handlePaymentSuccess without its emit.
relayRejectedSilent(evs) ==
  [status |-> MsgRelayError, events |-> evs, pc |-> "done_neterr"]

relayRejected(evs) ==
  [status |-> MsgRelayError,
   events |-> emit(evs, "error", "relay"),
   pc     |-> "done_neterr"]

\* ------------------------------------------------------ onBeforeUnmount
\* onBeforeUnmount with a return at the end of its first if.
onBeforeUnmountEarlyReturn(sEl, head, client, btn, att, cont) ==
  IF sEl # Null /\ sEl \in head
    THEN [scriptEl |-> Null, headScripts |-> head \ {sEl},
          paymentsClient |-> client, buttonElement |-> btn, attached |-> att]
    ELSE LET dropButton == btn # Null /\ cont /\ btn \in att
         IN  [scriptEl |-> sEl, headScripts |-> head, paymentsClient |-> Null,
              buttonElement |-> IF dropButton THEN Null ELSE btn,
              attached |-> IF dropButton THEN att \ {btn} ELSE att]

onBeforeUnmount(sEl, head, client, btn, att, cont) ==
  LET dropScript == sEl # Null /\ sEl \in head
      dropButton == btn # Null /\ cont /\ btn \in att
  IN  [scriptEl       |-> IF dropScript THEN Null ELSE sEl,
       headScripts    |-> IF dropScript THEN head \ {sEl} ELSE head,
       paymentsClient |-> Null,
       buttonElement  |-> IF dropButton THEN Null ELSE btn,
       attached       |-> IF dropButton THEN att \ {btn} ELSE att]

\* Entry point calls made so far.
nCalls == nInits + nClicks + nMounts + teardownCalls

\* ----------------------------------------------------------------- Init
\* The state when the mounted hook is about to run: the refs and lets of
\* lines 37-42, the template ref bound, the props chosen by the host page
\* (amount, currency and merchantName at their defaults) and the vendor API
\* on the page or not.
Init ==
  /\ autoSendToServer \in BOOLEAN
  /\ apiPresent \in BOOLEAN
  /\ status = MsgInitial
  /\ loading = TRUE
  /\ paymentsClient = Null
  /\ buttonElement = Null
  /\ scriptEl = Null
  /\ buttonContainer = TRUE
  /\ headScripts = {}
  /\ attached = {}
  /\ nButtons = 0
  /\ nScripts = 0
  /\ nInits = 0
  /\ nClicks = 0
  /\ nMounts = 0
  /\ teardownCalls = 0
  /\ initPc = [i \in Inits |-> "idle"]
  /\ initScript = [i \in Inits |-> Null]
  /\ payPc = [f \in Flows |-> "idle"]
  /\ initEvents = [i \in Inits |-> <<>>]
  /\ payEvents = [f \in Flows |-> <<>>]
  /\ amount = DefaultAmount
  /\ currency = DefaultCurrency
  /\ merchantName = DefaultMerchantName
  /\ request = NoRequest

\* ------------------------------------------------------- initGooglePay
\* onMounted -> initGooglePay, up to the await of loadGooglePayScript. The
\* mounted hook runs before the unmount hook: no call follows a teardown.
InitStart ==
  /\ nCalls < MaxCalls
  /\ teardownCalls = 0
  /\ LET i == nInits + 1
         r == loadGooglePayScript(apiPresent, scriptEl, headScripts, nScripts)
     IN  /\ nInits' = i
         /\ initPc' = [initPc EXCEPT ![i] = "script"]
         /\ initScript' = [initScript EXCEPT ![i] = r.awaits]
         /\ scriptEl' = r.scriptEl
         /\ headScripts' = r.headScripts
         /\ nScripts' = r.nScripts
  /\ UNCHANGED <<props, request, autoSendToServer, apiPresent, status, loading, paymentsClient,
                 buttonElement, buttonContainer, attached, nButtons, nClicks,
                 nMounts, teardownCalls, payPc, initEvents, payEvents>>

\* The script load promise resolves (onload, or the already resolved
\* promise): initPaymentsClient constructs a client, isReadyToPay is called.
ScriptLoaded(i) ==
  /\ initPc[i] = "script"
  /\ apiPresent' = (apiPresent \/ initScript[i] # Null)
  /\ paymentsClient' = initPaymentsClient(i)
  /\ initPc' = [initPc EXCEPT ![i] = "ready"]
  /\ UNCHANGED <<props, request, autoSendToServer, status, loading, buttonElement, scriptEl,
                 buttonContainer, headScripts, attached, nButtons, nScripts,
                 nInits, nClicks, nMounts, teardownCalls, initScript, payPc,
                 initEvents, payEvents>>

\* (ScriptFailedFallsThrough: the first catch without its return. The try
\* of line 110 runs next: with the API still absent initPaymentsClient
\* throws and the second catch runs, otherwise a client is constructed and
\* isReadyToPay is called.)
ScriptFailedFallsThrough(i) ==
  /\ initPc[i] = "script"
  /\ initScript[i] # Null
  /\ IF apiPresent
       THEN /\ status' = MsgScriptError
            /\ paymentsClient' = initPaymentsClient(i)
            /\ initEvents' = [initEvents EXCEPT ![i] = emit(@, "error", "script")]
            /\ initPc' = [initPc EXCEPT ![i] = "ready"]
       ELSE /\ status' = MsgCheckError
            /\ paymentsClient' = paymentsClient
            /\ initEvents' = [initEvents EXCEPT
                                ![i] = emit(emit(@, "error", "script"), "error", "ready")]
            /\ initPc' = [initPc EXCEPT ![i] = "done_loadfail"]
  /\ loading' = FALSE
  /\ UNCHANGED <<props, request, autoSendToServer, apiPresent, buttonElement,
                 scriptEl, buttonContainer, headScripts, attached, nButtons,
                 nScripts, nInits, nClicks, nMounts, teardownCalls, initScript,
                 payPc, payEvents>>

\* The script element's onerror: the first catch of initGooglePay.
ScriptFailed(i) ==
  /\ initPc[i] = "script"
  /\ initScript[i] # Null
  /\ status' = MsgScriptError
  /\ loading' = FALSE
  /\ initEvents' = [initEvents EXCEPT ![i] = emit(@, "error", "script")]
  /\ initPc' = [initPc EXCEPT ![i] = "done_loadfail"]
  /\ UNCHANGED <<props, request, autoSendToServer, apiPresent, paymentsClient, buttonElement,
                 scriptEl, buttonContainer, headScripts, attached, nButtons,
                 nScripts, nInits, nClicks, nMounts, teardownCalls, initScript,
                 payPc, payEvents>>

\* (ReadyResolvedKeepsLoading: the try of lines 110-123 without the
\* finally of lines 128-130.)
ReadyResolvedKeepsLoading(i, r) ==
  /\ initPc[i] = "ready"
  /\ LET o == readyBranch(r, paymentsClient, buttonElement, attached,
                          buttonContainer, nButtons, initEvents[i])
     IN  /\ buttonElement' = o.buttonElement
         /\ attached' = o.attached
         /\ nButtons' = o.nButtons
         /\ initEvents' = [initEvents EXCEPT ![i] = o.events]
         /\ status' = o.status
         /\ initPc' = [initPc EXCEPT ![i] = o.pc]
  /\ UNCHANGED <<props, request, autoSendToServer, apiPresent, loading,
                 paymentsClient, scriptEl, buttonContainer, headScripts,
                 nScripts, nInits, nClicks, nMounts, teardownCalls, initScript,
                 payPc, payEvents>>

\* isReadyToPay resolves with { result: r }: the branches of lines 116-123
\* and the finally.
ReadyResolved(i, r) ==
  /\ initPc[i] = "ready"
  /\ LET o == readyBranch(r, paymentsClient, buttonElement, attached,
                          buttonContainer, nButtons, initEvents[i])
     IN  /\ buttonElement' = o.buttonElement
         /\ attached' = o.attached
         /\ nButtons' = o.nButtons
         /\ initEvents' = [initEvents EXCEPT ![i] = o.events]
         /\ status' = o.status
         /\ initPc' = [initPc EXCEPT ![i] = o.pc]
  /\ loading' = FALSE
  /\ UNCHANGED <<props, request, autoSendToServer, apiPresent, paymentsClient, scriptEl,
                 buttonContainer, headScripts, nScripts, nInits, nClicks,
                 nMounts, teardownCalls, initScript, payPc, payEvents>>

\* (ReadyRejectedSilent: the second catch with console.error alone, no
\* emit.)
ReadyRejectedSilent(i) ==
  /\ initPc[i] = "ready"
  /\ status' = MsgCheckError
  /\ loading' = FALSE
  /\ initPc' = [initPc EXCEPT ![i] = "done_throw"]
  /\ UNCHANGED <<props, request, autoSendToServer, apiPresent, paymentsClient,
                 buttonElement, scriptEl, buttonContainer, headScripts, attached,
                 nButtons, nScripts, nInits, nClicks, nMounts, teardownCalls,
                 initScript, payPc, initEvents, payEvents>>

\* isReadyToPay throws or rejects: the second catch of initGooglePay.
ReadyRejected(i) ==
  /\ initPc[i] = "ready"
  /\ status' = MsgCheckError
  /\ initEvents' = [initEvents EXCEPT ![i] = emit(@, "error", "ready")]
  /\ loading' = FALSE
  /\ initPc' = [initPc EXCEPT ![i] = "done_throw"]
  /\ UNCHANGED <<props, request, autoSendToServer, apiPresent, paymentsClient, buttonElement,
                 scriptEl, buttonContainer, headScripts, attached, nButtons,
                 nScripts, nInits, nClicks, nMounts, teardownCalls, initScript,
                 payPc, payEvents>>

\* A direct call of createAndAddButton (the mountButton operation), made
\* like initGooglePay while the component is mounted.
MountButton ==
  /\ nCalls < MaxCalls
  /\ teardownCalls = 0
  /\ nMounts' = nMounts + 1
  /\ LET b == createAndAddButton(paymentsClient, buttonElement, attached,
                                 buttonContainer, nButtons)
     IN  /\ buttonElement' = b.buttonElement
         /\ attached' = b.attached
         /\ nButtons' = b.nButtons
  /\ UNCHANGED <<props, request, autoSendToServer, apiPresent, status, loading, paymentsClient,
                 scriptEl, buttonContainer, headScripts, nScripts, nInits,
                 nClicks, teardownCalls, initPc, initScript, payPc, initEvents, payEvents>>

\* ------------------------------------------- onGooglePayButtonClicked
\* Without a client only the status changes; with one, loadPaymentData is
\* called and a payment flow starts, whatever flows are already running.
\* (onGooglePayButtonClickedSetsProcessing: the handler with the status of
\* line 187 set at the click already.)
onGooglePayButtonClickedSetsProcessing(client, st, nc, pcs) ==
  IF client = Null
    THEN [status |-> MsgNoClient, nClicks |-> nc, payPc |-> pcs]
    ELSE [status |-> MsgProcessing, nClicks |-> nc + 1,
          payPc |-> [pcs EXCEPT ![nc + 1] = "vendor"]]

onGooglePayButtonClicked(client, st, nc, pcs) ==
  IF client = Null
    THEN [status |-> MsgNoClient, nClicks |-> nc, payPc |-> pcs]
    ELSE [status |-> st, nClicks |-> nc + 1,
          payPc |-> [pcs EXCEPT ![nc + 1] = "vendor"]]

\* (ClickNoClientCheck: the handler without the test of line 168, going on
\* to loadPaymentData whether or not a client exists.)
ClickNoClientCheck ==
  /\ nButtons > 0
  /\ nCalls < MaxCalls
  /\ nClicks' = nClicks + 1
  /\ payPc' = [payPc EXCEPT ![nClicks + 1] = "vendor"]
  /\ request' = getPaymentDataRequest(amount, currency, merchantName)
  /\ UNCHANGED <<props, autoSendToServer, apiPresent, status, loading,
                 paymentsClient, buttonElement, scriptEl, buttonContainer,
                 headScripts, attached, nButtons, nScripts, nInits, nMounts,
                 teardownCalls, initPc, initScript, initEvents, payEvents>>

\* The handler is given to createButton alone (line 143): a click reaches
\* it once a button has been created.
Click ==
  /\ nButtons > 0
  /\ paymentsClient # Null => nCalls < MaxCalls
  /\ LET r == onGooglePayButtonClicked(paymentsClient, status, nClicks, payPc)
     IN  /\ status' = r.status
         /\ nClicks' = r.nClicks
         /\ payPc' = r.payPc
  /\ request' = IF paymentsClient = Null
                  THEN request
                  ELSE getPaymentDataRequest(amount, currency, merchantName)
  /\ UNCHANGED <<props, autoSendToServer, apiPresent, loading, paymentsClient,
                 buttonElement, scriptEl, buttonContainer, headScripts,
                 attached, nButtons, nScripts, nInits, nMounts, teardownCalls,
                 initPc, initScript, initEvents, payEvents>>

\* loadPaymentData resolves: handlePaymentSuccess up to its await.
VendorResolved(f) ==
  /\ payPc[f] = "vendor"
  /\ LET r == handlePaymentSuccess(payEvents[f], autoSendToServer)
     IN  /\ status' = r.status
         /\ payEvents' = [payEvents EXCEPT ![f] = r.events]
         /\ payPc' = [payPc EXCEPT ![f] = r.pc]
  /\ UNCHANGED <<props, request, autoSendToServer, apiPresent, loading, paymentsClient,
                 buttonElement, scriptEl, buttonContainer, headScripts,
                 attached, nButtons, nScripts, nInits, nClicks, nMounts,
                 teardownCalls, initPc, initScript, initEvents>>

\* (VendorRejectedDropsClient: the catch of line 177 clearing the client
\* as well.)
VendorRejectedDropsClient(f) ==
  /\ payPc[f] = "vendor"
  /\ status' = MsgPayFailed
  /\ paymentsClient' = Null
  /\ payEvents' = [payEvents EXCEPT ![f] = emit(@, "error", "vendor")]
  /\ payPc' = [payPc EXCEPT ![f] = "done_cancel"]
  /\ UNCHANGED <<props, request, autoSendToServer, apiPresent, loading,
                 buttonElement, scriptEl, buttonContainer, headScripts,
                 attached, nButtons, nScripts, nInits, nClicks, nMounts,
                 teardownCalls, initPc, initScript, initEvents>>

\* loadPaymentData rejects: the catch of onGooglePayButtonClicked.
VendorRejected(f) ==
  /\ payPc[f] = "vendor"
  /\ status' = MsgPayFailed
  /\ payEvents' = [payEvents EXCEPT ![f] = emit(@, "error", "vendor")]
  /\ payPc' = [payPc EXCEPT ![f] = "done_cancel"]
  /\ UNCHANGED <<props, request, autoSendToServer, apiPresent, loading, paymentsClient,
                 buttonElement, scriptEl, buttonContainer, headScripts,
                 attached, nButtons, nScripts, nInits, nClicks, nMounts,
                 teardownCalls, initPc, initScript, initEvents>>

\* fetch resolves with a response (2xx or not): res.json() is awaited next.
FetchResolved(f, httpOk) ==
  /\ payPc[f] = "post"
  /\ payPc' = [payPc EXCEPT ![f] = IF httpOk THEN "json_2xx" ELSE "json_non2xx"]
  /\ UNCHANGED <<props, request, autoSendToServer, apiPresent, status, loading, paymentsClient,
                 buttonElement, scriptEl, buttonContainer, headScripts,
                 attached, nButtons, nScripts, nInits, nClicks, nMounts,
                 teardownCalls, initPc, initScript, initEvents, payEvents>>

\* fetch rejects (network error).
FetchRejected(f) ==
  /\ payPc[f] = "post"
  /\ LET r == relayRejected(payEvents[f])
     IN  /\ status' = r.status
         /\ payEvents' = [payEvents EXCEPT ![f] = r.events]
         /\ payPc' = [payPc EXCEPT ![f] = r.pc]
  /\ UNCHANGED <<props, request, autoSendToServer, apiPresent, loading, paymentsClient,
                 buttonElement, scriptEl, buttonContainer, headScripts,
                 attached, nButtons, nScripts, nInits, nClicks, nMounts,
                 teardownCalls, initPc, initScript, initEvents>>

\* res.json().catch(() => null) settles: the body parsed, or null.
JsonSettled(f, parsed) ==
  /\ payPc[f] \in {"json_2xx", "json_non2xx"}
  /\ LET r == relaySettled(payPc[f] = "json_2xx", parsed, payEvents[f])
     IN  /\ status' = r.status
         /\ payEvents' = [payEvents EXCEPT ![f] = r.events]
         /\ payPc' = [payPc EXCEPT ![f] = r.pc]
  /\ UNCHANGED <<props, request, autoSendToServer, apiPresent, loading, paymentsClient,
                 buttonElement, scriptEl, buttonContainer, headScripts,
                 attached, nButtons, nScripts, nInits, nClicks, nMounts,
                 teardownCalls, initPc, initScript, initEvents>>

\* ------------------------------------------------------------ teardown
\* The onBeforeUnmount hook. The template ref of line 5 belongs to the
\* framework: with the unmount that follows the hook it is set back to null
\* (unbound), or it still holds the element when the hook is run again by
\* hand on a component that stays mounted.
Teardown(unbound) ==
  /\ nCalls < MaxCalls
  /\ teardownCalls' = teardownCalls + 1
  /\ LET r == onBeforeUnmount(scriptEl, headScripts, paymentsClient,
                              buttonElement, attached, buttonContainer)
     IN  /\ scriptEl' = r.scriptEl
         /\ headScripts' = r.headScripts
         /\ paymentsClient' = r.paymentsClient
         /\ buttonElement' = r.buttonElement
         /\ attached' = r.attached
  /\ buttonContainer' = (buttonContainer /\ ~unbound)
  /\ UNCHANGED <<props, request, autoSendToServer, apiPresent, status, loading, nButtons,
                 nScripts, nInits, nClicks, nMounts, initPc, initScript, payPc,
                 initEvents, payEvents>>

\* A promise issued earlier settles.
Settle ==
  \/ \E i \in Inits : ScriptLoaded(i)
  \/ \E i \in Inits : ScriptFailed(i)
  \/ \E i \in Inits, r \in BOOLEAN : ReadyResolved(i, r)
  \/ \E i \in Inits : ReadyRejected(i)
  \/ \E f \in Flows : VendorResolved(f)
  \/ \E f \in Flows : VendorRejected(f)
  \/ \E f \in Flows, httpOk \in BOOLEAN : FetchResolved(f, httpOk)
  \/ \E f \in Flows : FetchRejected(f)
  \/ \E f \in Flows, parsed \in BOOLEAN : JsonSettled(f, parsed)

Next ==
  \/ Settle
  \/ Click
  \/ \E unbound \in BOOLEAN : Teardown(unbound)
  \/ InitStart
  \/ MountButton

Spec == Init /\ [][Next]_vars

\* ======================================================================
\* Properties
\* ======================================================================
Emitted == <<initEvents, payEvents>>

InProgress == {f \in Flows : payPc[f] \in {"vendor", "post", "json_2xx", "json_non2xx"}}

\* C1: once the onBeforeUnmount hook has run, no step emits a ready, success
\* or error event.
C1_NoEventAfterTeardown ==
  [][teardownCalls > 0 => Emitted' = Emitted]_vars

\* C2: once the onBeforeUnmount hook has run, the settling of a promise
\* changes neither the status nor the client nor the button held or
\* attached: no client is constructed and no button is created.
C2_ResultsDiscarded ==
  [][(teardownCalls > 0 /\ Settle)
       => UNCHANGED <<status, paymentsClient, buttonElement, attached, nButtons>>]_vars

\* C3: at most one payment flow is in progress at any time: a click while
\* loadPaymentData or its relay is pending starts no second flow.
C3_OneFlowAtATime ==
  Cardinality(InProgress) <= 1

\* A step in which createAndAddButton created a button.
ButtonCreated == nButtons' = nButtons + 1

\* C4: every call of createAndAddButton made with a client and a present
\* container leaves exactly one button attached, the one just created, and
\* the container never holds more than one button.
C4_OneButtonAttached ==
  /\ [](Cardinality(attached) <= 1)
  /\ [][(ButtonCreated /\ buttonContainer)
          => (attached' = {buttonElement'} /\ buttonElement' = nButtons')]_vars

C4_Witness ==
  /\ nButtons >= 3
  /\ buttonContainer
  /\ attached = {nButtons}
  /\ buttonElement = nButtons

Posted == {f \in Flows : payPc[f] \in {"post", "json_2xx", "json_non2xx", "done_ok",
                                       "done_non2xx", "done_parsefail", "done_neterr"}}

SuccessEv == Ev("success", "token")

HasError(evs) == \E k \in 1..Len(evs) : evs[k].e = "error"

\* C6: a negative readiness result attaches no button: the step that handles
\* it leaves the button held and the container as they were, and as long as
\* no call of initGooglePay has had a positive result (and createAndAddButton
\* was not called directly) no button exists.
C6_NoButtonWhenNegative ==
  /\ []((nMounts = 0 /\ \A i \in Inits : initPc[i] # "done_true")
          => (attached = {} /\ buttonElement = Null /\ nButtons = 0))
  /\ [][(\E i \in Inits : initPc[i] = "ready" /\ initPc'[i] = "done_false")
          => UNCHANGED <<buttonElement, attached, nButtons>>]_vars

C6_Witness ==
  /\ \E i \in Inits : initPc[i] = "done_false"
  /\ \A i \in Inits : initPc[i] # "done_true"
  /\ nMounts = 0
  /\ attached = {}

\* C7: with autoSendToServer false a payment the vendor resolved has emitted
\* success, and success alone, and no POST is issued for any flow.
C7_NoRelayWhenOff ==
  ~autoSendToServer
    => /\ Posted = {}
       /\ \A f \in Flows : payPc[f] \notin {"idle", "vendor", "done_cancel"}
                             => (payPc[f] = "done_norelay" /\ payEvents[f] = <<SuccessEv>>)

C7_Witness ==
  /\ ~autoSendToServer
  /\ \E f \in Flows : payPc[f] = "done_norelay"

\* C8: while a POST is pending the flow has emitted success exactly once;
\* when fetch rejects the status becomes the relay failure message and the
\* flow's events are that one success followed by one error.
C8_RelayRejectKeepsSuccess ==
  /\ [](\A f \in Flows :
          /\ payPc[f] \in {"post", "json_2xx", "json_non2xx"} => payEvents[f] = <<SuccessEv>>
          /\ payPc[f] = "done_neterr" => payEvents[f] = <<SuccessEv, Ev("error", "relay")>>)
  /\ [][\A f \in Flows :
          (payPc[f] = "post" /\ payPc'[f] = "done_neterr") => status' = MsgRelayError]_vars

C8_Witness ==
  \E f \in Flows : payPc[f] = "done_neterr" /\ status = MsgRelayError

\* C9: a POST answered with a non-2xx response, or whose body did not parse,
\* has led to an error event and, at the step that handled it, to an error
\* status.
C9_BadResponseReported ==
  /\ [](\A f \in Flows :
          payPc[f] \in {"done_non2xx", "done_parsefail"} => HasError(payEvents[f]))
  /\ [][\A f \in Flows :
          (payPc[f] # payPc'[f] /\ payPc'[f] \in {"done_non2xx", "done_parsefail"})
            => status' = MsgRelayError]_vars

\* The resources the onBeforeUnmount hook works on, and the hook applied to
\* them (cont: the container ref at the time of the call).
Resources ==
  [scriptEl |-> scriptEl, headScripts |-> headScripts,
   paymentsClient |-> paymentsClient, buttonElement |-> buttonElement,
   attached |-> attached]

Unmounted(r, cont) ==
  onBeforeUnmount(r.scriptEl, r.headScripts, r.paymentsClient, r.buttonElement,
                  r.attached, cont)

\* C10: from every reachable state, running the onBeforeUnmount hook again
\* on what a first run left changes nothing (whether or not the container
\* ref was unbound in between), and no run of the hook changes the status.
C10_TeardownIdempotent ==
  /\ [](\A c2 \in {buttonContainer, FALSE} :
          Unmounted(Unmounted(Resources, buttonContainer), c2)
            = Unmounted(Resources, buttonContainer))
  /\ [][teardownCalls' = teardownCalls + 1
          => (status' = status /\ Resources' = Unmounted(Resources, buttonContainer))]_vars

C10_Witness ==
  /\ teardownCalls >= 2
  /\ nButtons > 0
  /\ nScripts > 0
  /\ Resources = Unmounted(Resources, buttonContainer)

\* C11: with the vendor API on the page no step creates or injects a script
\* element, however many times initGooglePay is called: a script element is
\* injected only by a step that starts with the API absent.
C11_NoInjectionWhenPresent ==
  [][apiPresent => (nScripts' = nScripts /\ headScripts' \subseteq headScripts
                      /\ (scriptEl' = scriptEl \/ scriptEl' = Null))]_vars

C11_Witness ==
  /\ apiPresent
  /\ nInits >= 2
  /\ nScripts = 0
  /\ \A i \in 1..nInits : initPc[i] \notin {"idle", "script"}

\* The lifecycle stage a status message stands for.
StatusKind(m) ==
  CASE m = MsgInitial                       -> "loading"
    [] m \in {MsgAvailable, MsgServerDone}  -> "ready"
    [] m = MsgUnavailable                   -> "unavailable"
    [] m = MsgProcessing                    -> "processing"
    [] OTHER                                -> "error"

LifecycleEdges ==
  ({"loading"} \X {"ready", "unavailable", "error"})
    \cup ({"ready", "unavailable", "error"} \X {"processing"})
    \cup ({"processing"} \X {"ready", "error"})

\* Steps in which a promise of initGooglePay settles, loadPaymentData
\* resolves, and the relay (fetch or res.json) settles.
InitSettles ==
  \E i \in Inits : initPc[i] \in {"script", "ready"} /\ initPc'[i] # initPc[i]

VendorResolves ==
  \E f \in Flows : payPc[f] = "vendor" /\ payPc'[f] \in {"post", "done_norelay"}

RelaySettles ==
  \E f \in Flows : payPc[f] \in {"post", "json_2xx", "json_non2xx"} /\ payPc'[f] # payPc[f]

ReadyEvents(evs) == {k \in 1..Len(evs) : evs[k].e = "ready"}

\* C13: the step that handles a readiness result emits one ready event with
\* that result and mounts a button (creates one and attaches it) exactly when
\* the result is true; a call of initGooglePay that ended otherwise, and a
\* payment flow, emit no ready event.
C13_ReadyEventMatchesButton ==
  /\ [](/\ \A i \in Inits :
             /\ initPc[i] = "done_true"  => initEvents[i] = <<Ev("ready", "true")>>
             /\ initPc[i] = "done_false" => initEvents[i] = <<Ev("ready", "false")>>
             /\ initPc[i] \notin {"done_true", "done_false"} => ReadyEvents(initEvents[i]) = {}
        /\ \A f \in Flows : ReadyEvents(payEvents[f]) = {})
  /\ [][\A i \in Inits :
          (initPc[i] = "ready" /\ initPc'[i] \in {"done_true", "done_false"})
            => ((ButtonCreated /\ buttonElement' \in attached') <=> initPc'[i] = "done_true")]_vars

\* C14: when the script load fails the call of initGooglePay ends there:
\* the status is the script-load message, the call has emitted one error
\* event and nothing else, it constructs no client and makes no readiness
\* query (it is at its end and stays there), and no button is created or
\* attached by the step.
C14_ScriptLoadError ==
  /\ [](\A i \in Inits :
          initPc[i] = "done_loadfail"
            => (initEvents[i] = <<Ev("error", "script")>> /\ ~loading
                  /\ paymentsClient # initPaymentsClient(i)))
  /\ [][\A i \in Inits :
          /\ (initPc[i] = "script" /\ initPc'[i] = "done_loadfail")
               => (status' = MsgScriptError
                     /\ UNCHANGED <<paymentsClient, buttonElement, attached, nButtons>>)
          /\ initPc[i] = "done_loadfail" => initPc'[i] = "done_loadfail"
          /\ (initPc[i] = "script" /\ initPc'[i] = "ready") => Len(initEvents'[i]) = 0]_vars

C14_Witness ==
  \E i \in Inits : /\ initPc[i] = "done_loadfail"
                   /\ status = MsgScriptError
                   /\ paymentsClient = Null
                   /\ nButtons = 0

\* C15: when isReadyToPay throws or rejects, the call of initGooglePay ends
\* in its catch: the status is the availability-check message, the call has
\* emitted one error event with the cause and nothing else, loading is off,
\* and the step creates and attaches no button.
C15_AvailabilityCheckError ==
  /\ [](\A i \in Inits :
          initPc[i] = "done_throw"
            => (initEvents[i] = <<Ev("error", "ready")>> /\ ~loading))
  /\ [][\A i \in Inits :
          (initPc[i] = "ready" /\ initPc'[i] = "done_throw")
            => (status' = MsgCheckError
                  /\ UNCHANGED <<paymentsClient, buttonElement, attached, nButtons>>)]_vars

C15_Witness ==
  \E i \in Inits : /\ initPc[i] = "done_throw"
                   /\ status = MsgCheckError
                   /\ nButtons = 0
                   /\ attached = {}

\* C16: when loadPaymentData rejects, the status is the failure message, the
\* flow has emitted one error event with the cause and nothing else (no
\* success), no POST is ever issued for it, and the step leaves the client
\* and the button as they were.
C16_PaymentFlowError ==
  /\ [](\A f \in Flows :
          payPc[f] = "done_cancel" => payEvents[f] = <<Ev("error", "vendor")>>)
  /\ [][\A f \in Flows :
          /\ (payPc[f] = "vendor" /\ payPc'[f] = "done_cancel")
               => (status' = MsgPayFailed
                     /\ UNCHANGED <<paymentsClient, buttonElement, attached, nButtons>>)
          /\ payPc[f] = "done_cancel" => payPc'[f] = "done_cancel"]_vars

\* A flow was rejected and a later click has started the next one.
C16_Witness ==
  \E f, g \in Flows : /\ f < g
                      /\ payPc[f] = "done_cancel"
                      /\ payPc[g] = "vendor"
                      /\ InProgress = {g}

\* ------------------------------------------------ the request's inputs
\* The props of lines 17-19 as the parent may pass them: the defaults and
\* other values.
Amounts == {DefaultAmount, "10.00", "0.50"}
Currencies == {DefaultCurrency, "EUR"}
MerchantNames == {DefaultMerchantName, "Demo Shop"}

InitRequest ==
  /\ autoSendToServer \in BOOLEAN
  /\ apiPresent \in BOOLEAN
  /\ status = MsgInitial
  /\ loading = TRUE
  /\ paymentsClient = Null
  /\ buttonElement = Null
  /\ scriptEl = Null
  /\ buttonContainer = TRUE
  /\ headScripts = {}
  /\ attached = {}
  /\ nButtons = 0
  /\ nScripts = 0
  /\ nInits = 0
  /\ nClicks = 0
  /\ nMounts = 0
  /\ teardownCalls = 0
  /\ initPc = [i \in Inits |-> "idle"]
  /\ initScript = [i \in Inits |-> Null]
  /\ payPc = [f \in Flows |-> "idle"]
  /\ initEvents = [i \in Inits |-> <<>>]
  /\ payEvents = [f \in Flows |-> <<>>]
  /\ amount \in Amounts
  /\ currency \in Currencies
  /\ merchantName \in MerchantNames
  /\ request = NoRequest

\* The component mounted once and clicked: initialization, clicks, the
\* outcomes of every promise, and the unmount.
NextRequest ==
  \/ Settle
  \/ Click
  \/ \E unbound \in BOOLEAN : Teardown(unbound)
  \/ nInits = 0 /\ InitStart

SpecRequest == InitRequest /\ [][NextRequest]_vars

\* C17: the request built on a click has transactionInfo {FINAL, amount,
\* currency} and the configured merchant name, whatever the props are; with
\* amount "10.00" and currency "USD" it is {FINAL, "10.00", "USD"}.
C17_RequestFromProps ==
  /\ [](request # NoRequest
          => /\ request.transactionInfo
                  = [totalPriceStatus |-> "FINAL", totalPrice |-> amount,
                     currencyCode |-> currency]
             /\ request.merchantInfo.merchantName = merchantName
             /\ (amount = "10.00" /\ currency = "USD")
                  => request.transactionInfo
                       = [totalPriceStatus |-> "FINAL", totalPrice |-> "10.00",
                          currencyCode |-> "USD"])
  /\ [][(Click /\ paymentsClient # Null) => request' # NoRequest]_vars

C17_Witness ==
  /\ amount = "10.00"
  /\ currency = "USD"
  /\ merchantName = "Demo Shop"
  /\ request # NoRequest
  /\ \E f \in Flows : payPc[f] = "vendor"

\* Calls of initGooglePay and payment flows waiting for a promise.
InitsInFlight == {i \in Inits : initPc[i] \in {"script", "ready"}}

Quiescent == InitsInFlight = {} /\ InProgress = {}

\* C18: processing is not a resting state. The status changes only in the
\* entry points and in the continuations of promises, so the status can
\* leave processing without a further click only while some promise is in
\* flight: whenever the status is processing, a promise is in flight.
C18_ProcessingNotResting ==
  StatusKind(status) = "processing" => ~Quiescent

\* C19: a click handled while no client exists calls loadPaymentData for no
\* request, starts no flow (so no POST follows from it) and emits no event:
\* it sets the status to the not-initialized message and changes nothing
\* else.
C19_ClickWithoutClient ==
  [][(Click /\ paymentsClient = Null)
       => /\ status' = MsgNoClient
          /\ UNCHANGED <<request, nClicks, payPc, Emitted, Posted>>
          /\ UNCHANGED <<props, autoSendToServer, apiPresent, loading,
                         paymentsClient, buttonElement, scriptEl,
                         buttonContainer, headScripts, attached, nButtons,
                         nScripts, nInits, nMounts, teardownCalls, initPc,
                         initScript>>]_vars

\* The click after the teardown set the client to null.
C19_Witness ==
  /\ teardownCalls > 0
  /\ paymentsClient = Null
  /\ status = MsgNoClient
  /\ nClicks = 0

\* ------------------------------------------------------------ fairness
\* The promise call i of initGooglePay waits for settles.
InitSettle(i) ==
  \/ ScriptLoaded(i)
  \/ ScriptFailed(i)
  \/ \E r \in BOOLEAN : ReadyResolved(i, r)
  \/ ReadyRejected(i)

\* The component mounted once (onMounted calls initGooglePay once), with
\* the entry points and the continuations of initGooglePay: the steps that
\* run while loading is displayed, without the continuations of a payment
\* flow (which start after a click and never write loading).
NextLoading ==
  \/ \E i \in Inits : InitSettle(i)
  \/ Click
  \/ \E unbound \in BOOLEAN : Teardown(unbound)
  \/ nInits = 0 /\ InitStart
  \/ MountButton

\* Every such run in which the script load and the readiness query of each
\* call of initGooglePay settle.
FairSpec ==
  Init /\ [][NextLoading]_vars /\ \A i \in Inits : WF_vars(InitSettle(i))

InitFinished ==
  {i \in Inits : initPc[i] \in {"done_loadfail", "done_true", "done_false",
                                "done_throw"}}

\* C20: loading is true until a call of initGooglePay finishes and false
\* from then on, whichever way the call finished; it never goes back to
\* true; and once a call has started, loading becomes false.
C20_LoadingFlag ==
  /\ [](loading <=> InitFinished = {})
  /\ [][~loading => ~loading']_vars
  /\ \A i \in Inits : (initPc[i] \in {"script", "ready"}) ~> ~loading

\* The call of initGooglePay has finished, here through the second catch,
\* and loading is false.
C20_Witness ==
  /\ ~loading
  /\ initPc[1] = "done_throw"
  /\ InitsInFlight = {}

====
